---- MODULE Spec2Model ----
(***************************************************************************)
(* MMASHDataset (pyhealth/datasets/mmash.py): the constructor's pipeline   *)
(* of validation, acquisition (download_and_extract), discovery and        *)
(* assembly (load_data), run against a file system and a remote archive.   *)
(*                                                                         *)
(* A directory name is the sequence of its character codes (digits here),  *)
(* compared as Python compares str.  The collaborators (BaseDataset,       *)
(* pandas.read_csv, requests, zipfile, os) are modelled by their effect on *)
(* the file system and by the exceptions they raise.                       *)
(***************************************************************************)
EXTENDS Naturals, Sequences, FiniteSets

\* ------------------------------------------------------------- bounds
\* Longest `tables` argument a caller passes.
MaxTables == 2
\* Number of MMASHDataset(...) constructions on the same root.
MaxConstructions == 2

\* Entries of the extracted root: "10" and "2" (str order: "10" < "2").
Names == {<<1, 0>>, <<2>>}
\* Names a caller passes in `tables`; "bogus" is outside ALL_TABLES.
ArgNames == {"sleep", "rr", "bogus"}
\* The source files whose state varies between subjects; the others exist.
VariedFiles == {"sleep.csv", "RR.csv"}

\* ---------------------------------------------------------- constants
ALL_TABLES == <<"sleep", "activity", "user_info", "questionnaire", "rr">>

NoName == <<>>

\* ------------------------------------------------------------ helpers
\* Python's `x in list`.
Member(x, list) == \E i \in DOMAIN list : list[i] = x

RECURSIVE LexLess(_, _)
\* Python's str `<`: first differing character decides, a proper prefix is less.
LexLess(a, b) ==
    IF b = <<>> THEN FALSE
    ELSE IF a = <<>> THEN TRUE
    ELSE IF Head(a) # Head(b) THEN Head(a) < Head(b)
    ELSE LexLess(Tail(a), Tail(b))

RECURSIVE InsertSorted(_, _)
InsertSorted(x, list) ==
    IF list = <<>> THEN <<x>>
    ELSE IF LexLess(Head(list), x) THEN <<Head(list)>> \o InsertSorted(x, Tail(list))
    ELSE <<x>> \o list

\* Faulty variant of sorted: the listing is used in the order os.listdir returned it.
SortedAs(list) == list

RECURSIVE sorted(_)
\* sorted(os.listdir(root_dir))
sorted(list) ==
    IF list = <<>> THEN <<>>
    ELSE InsertSorted(Head(list), sorted(Tail(list)))

\* All orders in which os.listdir may return the set S.
Listings(S) ==
    {l \in [1..Cardinality(S) -> S] : \A i, j \in DOMAIN l : i # j => l[i] # l[j]}

BoundedSeq(S, n) == UNION {[1..k -> S] : k \in 0..n}

\* ------------------------------------------------------- file system
FileNames == {"sleep.csv", "Activity.csv", "user_info.csv", "questionnaire.csv", "RR.csv"}

\* The files of one subject directory: present and parseable ("ok"), absent
\* ("missing": read_csv raises FileNotFoundError), or present but unreadable
\* or malformed ("bad": read_csv raises another error).
Profiles ==
    {f \in [FileNames -> {"ok", "missing", "bad"}] :
        \A n \in FileNames \ VariedFiles : f[n] = "ok"}

\* The directories a symbolic link resolves to: those whose sleep.csv is fine.
LinkedProfiles == {f \in Profiles : f["sleep.csv"] = "ok"}

NoFiles == [n \in FileNames |-> "missing"]

\* One name under the extracted root.
Entries ==
    {[kind |-> "absent", files |-> NoFiles],
     [kind |-> "file", files |-> NoFiles],
     [kind |-> "symlink_other", files |-> NoFiles]}
    \cup {[kind |-> "dir", files |-> f] : f \in Profiles}
    \cup {[kind |-> "symlink_dir", files |-> f] : f \in LinkedProfiles}

Worlds == [Names -> Entries]

EmptyWorld == [n \in Names |-> [kind |-> "absent", files |-> NoFiles]]

\* The `tables` argument: None, or a list.
TableArgs ==
    {[given |-> FALSE, list |-> <<>>]}
    \cup {[given |-> TRUE, list |-> l] : l \in BoundedSeq(ArgNames, MaxTables)}

VARIABLES
    pc,            \* position of the construction in progress, or its end
    error,         \* the exception a construction ended with ("" if none)
    tables,        \* the `tables` argument of the current construction
    users,         \* load_data: the sorted listing still to iterate
    samples,       \* the add_sample calls of the current instance
    log,           \* the I/O operations the current construction performed
    world,         \* the content <root>/MMASH/MMASH has, or the archive gives it
    archiveOk,     \* the archive's top-level entry is MMASH/
    marker,        \* <root>/MMASH/MMASH exists
    zip,           \* <root>/MMASH/mmash.zip: "absent", "partial", "complete"
    nConstructed,  \* constructions started so far
    markerAtStart, \* marker, when the current construction started
    zipAtStart,    \* zip, when the current construction started
    acquiredAtStart, \* an earlier construction's download_and_extract returned
    acquired       \* some construction's download_and_extract returned

vars == <<pc, error, tables, users, samples, log, world, archiveOk, marker, zip,
          nConstructed, markerAtStart, zipAtStart, acquiredAtStart, acquired>>

Ev(op, user, file) == [op |-> op, user |-> user, file |-> file]

Ops(l) == {l[i].op : i \in DOMAIN l}

\* ----------------------------------------------------------- __init__
ValidateAs(arg) ==
    \* Faulty variant of Validate: only the first table name is checked.
    IF ~arg.given THEN "ValueError"
    ELSE IF arg.list # <<>> /\ ~Member(arg.list[1], ALL_TABLES) THEN "ValueError"
    ELSE ""

\* Lines 38-42: None is rejected, then every name outside ALL_TABLES.
Validate(arg) ==
    IF ~arg.given THEN "ValueError"
    ELSE IF \E i \in DOMAIN arg.list : ~Member(arg.list[i], ALL_TABLES) THEN "ValueError"
    ELSE ""

Init ==
    /\ pc = "idle"
    /\ error = ""
    /\ tables = [given |-> FALSE, list |-> <<>>]
    /\ users = <<>>
    /\ samples = <<>>
    /\ log = <<>>
    /\ world \in Worlds
    /\ archiveOk \in BOOLEAN
    /\ marker \in BOOLEAN
    /\ marker => archiveOk
    /\ ~archiveOk => world = EmptyWorld
    /\ zip = "absent"
    /\ nConstructed = 0
    /\ markerAtStart = marker
    /\ zipAtStart = "absent"
    /\ acquiredAtStart = FALSE
    /\ acquired = FALSE

Raise(e) == pc' = "raised" /\ error' = e

\* MMASHDataset(root, tables=arg): lines 38-45, up to super().__init__.
Construct(arg) ==
    /\ pc \in {"idle", "done", "raised"}
    /\ nConstructed < MaxConstructions
    /\ nConstructed' = nConstructed + 1
    /\ tables' = arg
    /\ users' = <<>>
    /\ samples' = <<>>
    /\ log' = <<>>
    /\ markerAtStart' = marker
    /\ zipAtStart' = zip
    /\ acquiredAtStart' = acquired
    /\ IF Validate(arg) # "" THEN Raise(Validate(arg))
       ELSE pc' = "check" /\ error' = ""
    /\ UNCHANGED <<world, archiveOk, marker, zip, acquired>>

\* Faulty variant of NeedsDownload: the marker is not consulted.
NeedsDownloadAs(m) == TRUE

\* Line 48: not os.path.exists(<root>/MMASH/MMASH).
NeedsDownload(m) == ~m

\* Lines 47-49: the marker check.
CheckMarker ==
    /\ pc = "check"
    /\ log' = Append(log, Ev("exists", NoName, "MMASH"))
    /\ pc' = IF NeedsDownload(marker) THEN "get" ELSE "list"
    /\ UNCHANGED <<error, tables, users, samples, world, archiveOk, marker, zip,
                   nConstructed, markerAtStart, zipAtStart, acquiredAtStart, acquired>>

\* Lines 54-58: os.makedirs, then requests.get(MMASH_URL, stream=True).
HttpGet ==
    /\ pc = "get"
    /\ log' = log \o <<Ev("makedirs", NoName, "MMASH"), Ev("get", NoName, "MMASH.zip")>>
    /\ \E ok \in BOOLEAN :
          IF ok THEN pc' = "stream" /\ error' = error
          ELSE Raise("ConnectionError")
    /\ UNCHANGED <<tables, users, samples, world, archiveOk, marker, zip,
                   nConstructed, markerAtStart, zipAtStart, acquiredAtStart, acquired>>

\* Lines 59-68: open(zip_path, "wb") and the chunks of iter_content written.
Stream ==
    /\ pc = "stream"
    /\ log' = Append(log, Ev("write", NoName, "mmash.zip"))
    /\ \E ok \in BOOLEAN :
          IF ok THEN zip' = "complete" /\ pc' = "extract" /\ error' = error
          ELSE zip' = "partial" /\ Raise("ChunkedEncodingError")
    /\ UNCHANGED <<tables, users, samples, world, archiveOk, marker,
                   nConstructed, markerAtStart, zipAtStart, acquiredAtStart, acquired>>

\* Lines 70-71: zipfile.ZipFile(zip_path) and extractall(dataset_folder).
\* ZipFile raises on a file that is no archive; extractall may raise after it
\* has created some entries, the top-level directory among them.
Extract ==
    /\ pc = "extract"
    /\ log' = Append(log, Ev("extract", NoName, "mmash.zip"))
    /\ \E ok \in BOOLEAN :
          IF ok THEN marker' = (marker \/ archiveOk) /\ pc' = "remove" /\ error' = error
          ELSE marker' \in {marker, marker \/ archiveOk} /\ Raise("BadZipFile")
    /\ UNCHANGED <<tables, users, samples, world, archiveOk, zip,
                   nConstructed, markerAtStart, zipAtStart, acquiredAtStart, acquired>>

\* Faulty variant of RemoveZip: the temporary archive is not removed.
RemoveZipAs(z) == z

\* Line 72: os.remove(zip_path).
RemoveZip(z) == "absent"

Remove ==
    /\ pc = "remove"
    /\ log' = Append(log, Ev("remove", NoName, "mmash.zip"))
    /\ zip' = RemoveZip(zip)
    /\ acquired' = TRUE
    /\ pc' = "list"
    /\ UNCHANGED <<error, tables, users, samples, world, archiveOk, marker,
                   nConstructed, markerAtStart, zipAtStart, acquiredAtStart>>

\* ---------------------------------------------------------- load_data
Present == {n \in Names : world[n].kind # "absent"}

\* Lines 75-76: users = sorted(os.listdir(root_dir)); listdir raises when
\* root_dir does not exist.
ListDir ==
    /\ pc = "list"
    /\ log' = Append(log, Ev("listdir", NoName, "MMASH"))
    /\ IF ~marker THEN Raise("FileNotFoundError") /\ users' = users
       ELSE \E l \in Listings(Present) :
               /\ users' = sorted(l)
               /\ pc' = IF users' = <<>> THEN "done" ELSE "loop"
               /\ error' = error
    /\ UNCHANGED <<tables, samples, world, archiveOk, marker, zip,
                   nConstructed, markerAtStart, zipAtStart, acquiredAtStart, acquired>>

\* Faulty variant of IsDir: symbolic links are not followed.
IsDirAs(e) == e.kind = "dir"

\* Line 79: os.path.isdir(user_path) follows symbolic links.
IsDir(e) == e.kind \in {"dir", "symlink_dir"}

BlocksAs ==
    \* Faulty variant of Blocks: the rr block stores its table under "sleep".
    <<[test |-> "sleep", file |-> "sleep.csv", key |-> "sleep"],
      [test |-> "activity", file |-> "Activity.csv", key |-> "activity"],
      [test |-> "user_info", file |-> "user_info.csv", key |-> "user_info"],
      [test |-> "questionnaire", file |-> "questionnaire.csv", key |-> "questionnaire"],
      [test |-> "rr", file |-> "RR.csv", key |-> "sleep"]>>

\* Lines 84-103: the five `if "<table>" in self.tables` blocks, in order.
Blocks ==
    <<[test |-> "sleep", file |-> "sleep.csv", key |-> "sleep"],
      [test |-> "activity", file |-> "Activity.csv", key |-> "activity"],
      [test |-> "user_info", file |-> "user_info.csv", key |-> "user_info"],
      [test |-> "questionnaire", file |-> "questionnaire.csv", key |-> "questionnaire"],
      [test |-> "rr", file |-> "RR.csv", key |-> "rr"]>>

RECURSIVE BlocksOf(_)
\* One block per element of the caller's list, in the caller's order.
BlocksOf(list) ==
    IF list = <<>> THEN <<>>
    ELSE SelectSeq(Blocks, LAMBDA b : b.test = Head(list)) \o BlocksOf(Tail(list))

\* Faulty variant of ReadOrder: the blocks run in the caller's order.
ReadOrderAs(list) == BlocksOf(list)

\* The blocks whose test `"<table>" in self.tables` passes, in source order.
ReadOrder(list) == SelectSeq(Blocks, LAMBDA b : Member(b.test, list))

\* record[key] = frame, the frame's user_id column set to user_id.
Put(rec, key, user_id) ==
    [k \in DOMAIN rec \cup {key} |-> IF k = key THEN user_id ELSE rec[k]]

EmptyRecord == [k \in {} |-> NoName]

RECURSIVE ReadTables(_, _, _, _, _)
\* Lines 82-103 for one subject: read block after block until one raises.
ReadTables(user_id, order, i, rec, reads) ==
    IF i > Len(order) THEN [failure |-> "none", record |-> rec, reads |-> reads]
    ELSE LET b == order[i]
             st == world[user_id].files[b.file]
         IN IF st = "ok"
            THEN ReadTables(user_id, order, i + 1, Put(rec, b.key, user_id),
                            Append(reads, b.file))
            ELSE [failure |-> st, record |-> rec, reads |-> Append(reads, b.file)]

\* Faulty variant of ExceptAction: a bare `except` that skips on any error.
ExceptActionAll(failure) == "continue"

\* Faulty variant of ExceptAction: `pass` instead of `continue`, so that the
\* partial record of a subject with a missing file is added.
ExceptActionPass(failure) == IF failure = "missing" THEN "pass" ELSE "propagate"

\* Lines 105-106: `except FileNotFoundError: continue`; anything else propagates.
ExceptAction(failure) == IF failure = "missing" THEN "continue" ELSE "propagate"

ReadEvents(user_id, reads) == [i \in DOMAIN reads |-> Ev("read", user_id, reads[i])]

\* Lines 77-108: one iteration of `for user_id in users`.
ProcessUser ==
    /\ pc = "loop"
    /\ users # <<>>
    /\ LET user_id == Head(users)
           res == ReadTables(user_id, ReadOrder(tables.list), 1, EmptyRecord, <<>>)
           handler == IF res.failure = "none" THEN "pass" ELSE ExceptAction(res.failure)
           next == IF Tail(users) = <<>> THEN "done" ELSE "loop"
       IN IF ~IsDir(world[user_id])
          THEN /\ log' = Append(log, Ev("isdir", user_id, "no"))
               /\ samples' = samples
               /\ pc' = next /\ error' = error
          ELSE /\ log' = log \o <<Ev("isdir", user_id, "yes")>> \o ReadEvents(user_id, res.reads)
                          \o (CASE handler = "pass" -> <<Ev("add_sample", user_id, "")>>
                                [] handler = "continue" -> <<Ev("skip", user_id, "")>>
                                [] OTHER -> <<Ev("abort", user_id, "")>>)
               /\ samples' = IF handler = "pass"
                             THEN Append(samples, [patient_id |-> user_id,
                                                   visit_id |-> user_id,
                                                   record |-> res.record])
                             ELSE samples
               /\ IF handler = "propagate" THEN Raise("ReadError")
                  ELSE pc' = next /\ error' = error
    /\ users' = Tail(users)
    /\ UNCHANGED <<tables, world, archiveOk, marker, zip,
                   nConstructed, markerAtStart, zipAtStart, acquiredAtStart, acquired>>

Next ==
    \/ \E arg \in TableArgs : Construct(arg)
    \/ CheckMarker
    \/ HttpGet
    \/ Stream
    \/ Extract
    \/ Remove
    \/ ListDir
    \/ ProcessUser

Spec == Init /\ [][Next]_vars

\* ------------------------------------------------- what the claims read
Started == nConstructed > 0

RangeOf(list) == {list[i] : i \in DOMAIN list}

\* The requested tables as a set: the order and the duplicates of the
\* caller's list are gone.
Requested == {t \in RangeOf(ALL_TABLES) : Member(t, tables.list)}

\* The source file of ALL_TABLES[i] (lines 85, 89, 93, 97, 101).
SourceFiles == <<"sleep.csv", "Activity.csv", "user_info.csv", "questionnaire.csv", "RR.csv">>

Status(u, i) == world[u].files[SourceFiles[i]]

\* The requested tables of subject u whose read raises, by position in ALL_TABLES.
Failing(u) == {i \in DOMAIN ALL_TABLES : ALL_TABLES[i] \in Requested /\ Status(u, i) # "ok"}

FirstFailing(u) == CHOOSE i \in Failing(u) : \A j \in Failing(u) : i <= j

\* "none", or the status of the first requested file, in ALL_TABLES order,
\* whose read raises.
FirstFailure(u) == IF Failing(u) = {} THEN "none" ELSE Status(u, FirstFailing(u))

HasMissing(u) ==
    \E i \in DOMAIN ALL_TABLES : ALL_TABLES[i] \in Requested /\ Status(u, i) = "missing"

AllReadable(u) == Failing(u) = {}

Count(u) == Cardinality({i \in DOMAIN samples : samples[i].patient_id = u})

Logged(op, u) == \E i \in DOMAIN log : log[i].op = op /\ log[i].user = u

Processed(u) == Logged("isdir", u)

NumOp(op) == Cardinality({i \in DOMAIN log : log[i].op = op})

AcquisitionOps == {"makedirs", "get", "write", "extract", "remove"}

AcquisitionErrors == {"ConnectionError", "ChunkedEncodingError", "BadZipFile"}

\* The files read for subject u, in the order they were read.
ReadsOf(u) ==
    LET r == SelectSeq(log, LAMBDA e : e.op = "read" /\ e.user = u)
    IN [i \in DOMAIN r |-> r[i].file]

\* The requested files up to and including the first one whose read raises,
\* in ALL_TABLES order.
ExpectedReads(u) ==
    LET idx == SelectSeq([i \in DOMAIN ALL_TABLES |-> i],
                         LAMBDA i : /\ ALL_TABLES[i] \in Requested
                                    /\ (Failing(u) # {} => i <= FirstFailing(u)))
    IN [k \in DOMAIN idx |-> SourceFiles[idx[k]]]

\* ---------------------------------------------------------------- C1
\* C1: a construction whose table list holds a name outside ALL_TABLES ends
\* with ValueError and has performed no I/O at all: no marker check, no
\* download, no extraction, no listing, no read, no add_sample, and the disk
\* is as it was.
C1_InvalidTableFailsBeforeIO ==
    (Started /\ tables.given /\ \E i \in DOMAIN tables.list : ~Member(tables.list[i], ALL_TABLES))
    => /\ pc = "raised" /\ error = "ValueError"
       /\ log = <<>> /\ samples = <<>>
       /\ marker = markerAtStart /\ zip = zipAtStart

C1_Witness ==
    /\ Started /\ tables.given /\ tables.list = <<"sleep", "bogus">>
    /\ pc = "raised" /\ error = "ValueError"

\* ---------------------------------------------------------------- C2
\* C2: a construction whose table selection is None or the empty list ends
\* with a configuration error and never reaches acquisition, discovery or
\* assembly.
C2_MissingOrEmptyTablesFail ==
    (Started /\ (~tables.given \/ tables.list = <<>>))
    => pc = "raised" /\ error = "ValueError" /\ log = <<>> /\ samples = <<>>

\* ---------------------------------------------------------------- C3
NoAcquisition == Ops(log) \cap AcquisitionOps = {}

\* C3 as stated: with the marker directory present at construction nothing is
\* downloaded, written, extracted or removed, and after a construction whose
\* download_and_extract returned no later construction issues a GET.
C3_AcquisitionIdempotent ==
    /\ (Started /\ markerAtStart) => (NoAcquisition /\ pc \notin {"get", "stream", "extract", "remove"})
    /\ acquiredAtStart => ~("get" \in Ops(log))

\* C3 amended: with the marker directory present at construction nothing is
\* downloaded, written, extracted or removed and the construction goes from
\* the marker check to load_data; after a construction whose
\* download_and_extract returned, no later construction issues a GET provided
\* the archive held the top-level MMASH directory (so that the marker exists).
C3_NoDownloadOnceMarkerExists ==
    /\ (Started /\ markerAtStart) =>
          /\ NoAcquisition
          /\ pc \in {"check", "list", "loop", "done", "raised"}
          /\ pc = "raised" => error \in {"ValueError", "ReadError"}
    /\ (acquiredAtStart /\ archiveOk) => (markerAtStart /\ ~("get" \in Ops(log)))

C3_Witness ==
    /\ nConstructed = 2 /\ acquiredAtStart /\ markerAtStart
    /\ pc = "done" /\ samples # <<>> /\ NoAcquisition

\* ---------------------------------------------------------------- C4
LoadEnded == pc = "done" \/ (pc = "raised" /\ error = "ReadError")

\* C4 as stated: when load_data has ended, a subject directory with a
\* requested file absent has no add_sample call, and every other subject
\* directory whose requested files are all present and readable has exactly one.
C4_PartialSubjectIsolation ==
    (LoadEnded /\ \E v \in Names : IsDir(world[v]) /\ HasMissing(v))
    => \A u \in Names :
          IsDir(world[u]) =>
             /\ HasMissing(u) => Count(u) = 0
             /\ AllReadable(u) => Count(u) = 1

\* C4 amended: a subject directory with a requested file absent never has an
\* add_sample call, also when earlier requested files of it were read; a
\* subject directory whose requested files are all present and readable has
\* exactly one add_sample call once the loop has reached it, and the loop
\* reaches every subject unless a subject before it raised an error other
\* than file-missing (a skipped subject never stops the loop).
C4_IsolationUnlessAborted ==
    \A u \in Names :
       IsDir(world[u]) =>
          /\ HasMissing(u) => Count(u) = 0
          /\ AllReadable(u) => Count(u) = (IF Processed(u) THEN 1 ELSE 0)
          /\ pc = "done" => Processed(u)
          /\ (Logged("skip", u) /\ pc = "raised") =>
                \E w \in Names : Logged("abort", w) /\ FirstFailure(w) = "bad"

C4_Witness ==
    /\ pc = "done"
    /\ HasMissing(<<1, 0>>) /\ Logged("skip", <<1, 0>>) /\ Len(ReadsOf(<<1, 0>>)) = 2
    /\ Count(<<1, 0>>) = 0 /\ Count(<<2>>) = 1

\* ---------------------------------------------------------------- C5
\* C5: every record handed to add_sample has as its keys exactly the requested
\* tables whose file existed for that subject, each table tagged with the
\* subject.
C5_RecordKeysExact ==
    \A s \in DOMAIN samples :
       LET u == samples[s].patient_id
       IN /\ DOMAIN samples[s].record =
                {ALL_TABLES[i] : i \in {j \in DOMAIN ALL_TABLES :
                                          /\ ALL_TABLES[j] \in Requested
                                          /\ Status(u, j) # "missing"}}
          /\ \A k \in DOMAIN samples[s].record : samples[s].record[k] = u

C5_Witness ==
    \E s \in DOMAIN samples :
       /\ DOMAIN samples[s].record = {"sleep", "rr"}
       /\ \E v \in Names : IsDir(world[v]) /\ HasMissing(v)

\* ---------------------------------------------------------------- C6
\* C6: a read that raises an error other than file-missing ends the whole
\* load: the subject and every later one get no add_sample, and the subjects
\* added before stay added; only file-missing is caught, and the subject it
\* skips is the only one affected.
C6_SkipAbortAsymmetry ==
    \A u \in Names :
       /\ (Processed(u) /\ IsDir(world[u]) /\ FirstFailure(u) = "bad") =>
             /\ pc = "raised" /\ error = "ReadError"
             /\ log[Len(log)] = Ev("abort", u, "")
             /\ users = SelectSeq(users, LAMBDA v : LexLess(u, v))
             /\ \A v \in Names :
                   /\ (v = u \/ LexLess(u, v)) => Count(v) = 0
                   /\ (LexLess(v, u) /\ IsDir(world[v]) /\ AllReadable(v)) => Count(v) = 1
       /\ Logged("abort", u) => (IsDir(world[u]) /\ FirstFailure(u) = "bad")
       /\ Logged("skip", u) => (IsDir(world[u]) /\ FirstFailure(u) = "missing")
       /\ (Processed(u) /\ IsDir(world[u]) /\ FirstFailure(u) = "missing") =>
             (Logged("skip", u) /\ ~Logged("abort", u) /\ Count(u) = 0)

C6_Witness ==
    /\ pc = "raised" /\ error = "ReadError"
    /\ Logged("abort", <<2>>) /\ Count(<<1, 0>>) = 1

\* ---------------------------------------------------------------- C7
\* C7: the add_sample calls of one load_data run are strictly increasing in
\* the str order of the directory names, each subject is processed at most
\* once, each call has patient_id = visit_id = the directory name, and a
\* regular file under the root is never added.
C7_SortedOnceNoFiles ==
    /\ \A i, j \in DOMAIN samples :
          i < j => LexLess(samples[i].patient_id, samples[j].patient_id)
    /\ \A i \in DOMAIN samples :
          /\ samples[i].patient_id = samples[i].visit_id
          /\ samples[i].patient_id \in Names
          /\ world[samples[i].patient_id].kind # "file"
    /\ \A i, j \in DOMAIN log :
          (i < j /\ log[i].op = "isdir" /\ log[j].op = "isdir") => LexLess(log[i].user, log[j].user)
    /\ \A i \in DOMAIN users :
          \A k \in DOMAIN log : log[k].op = "isdir" => LexLess(log[k].user, users[i])

C7_Witness ==
    /\ Len(samples) = 2
    /\ samples[1].patient_id = <<1, 0>> /\ samples[2].patient_id = <<2>>

\* ---------------------------------------------------------------- C8
\* C8 as stated: an entry of the extracted root that is a symbolic link never
\* produces an add_sample call, whatever it points to.
C8_SymlinksExcluded ==
    \A s \in DOMAIN samples :
       world[samples[s].patient_id].kind \notin {"symlink_dir", "symlink_other"}

\* C8 amended: only entries that os.path.isdir accepts are added: directories
\* and symbolic links that resolve to a directory; a symbolic link that does
\* not resolve to a directory is excluded, and a link to a directory holding
\* every requested file is added like a directory.
C8_IsDirFollowsLinks ==
    /\ \A s \in DOMAIN samples :
          world[samples[s].patient_id].kind \in {"dir", "symlink_dir"}
    /\ \A u \in Names :
          (world[u].kind = "symlink_other" /\ Processed(u)) => Logged("isdir", u) /\ ~Logged("read", u)
    /\ pc = "done" =>
          \A u \in Names :
             (world[u].kind = "symlink_dir" /\ AllReadable(u)) => Count(u) = 1

C8_Witness ==
    /\ pc = "done"
    /\ world[<<1, 0>>].kind = "symlink_other" /\ Count(<<1, 0>>) = 0
    /\ world[<<2>>].kind = "symlink_dir" /\ Count(<<2>>) = 1

\* ---------------------------------------------------------------- C9
AcquisitionFailed == pc = "raised" /\ error \in AcquisitionErrors

OneGet ==
    /\ NumOp("get") <= 1
    /\ (Started /\ ~markerAtStart /\ (pc \in {"stream", "extract", "remove"} \/ AcquisitionFailed
                                      \/ "remove" \in Ops(log)))
          => NumOp("get") = 1

RemovedBeforeLoad ==
    ("remove" \in Ops(log) /\ pc \in {"list", "loop", "done"}) => zip = "absent"

\* C9 as stated: with the marker absent a construction issues exactly one GET;
\* after a successful download and extraction the temporary archive is gone
\* when load_data starts; after a failed download or extraction load_data
\* never runs and the temporary archive is on disk.
C9_AcquisitionOutcome ==
    /\ OneGet
    /\ RemovedBeforeLoad
    /\ AcquisitionFailed =>
          /\ samples = <<>> /\ ~("listdir" \in Ops(log))
          /\ zip # "absent"

\* C9 amended: as stated, except that after a failure the temporary archive is
\* on disk only if it had been created: a failure of the streamed write or of
\* the extraction leaves the file this construction wrote; a failure of
\* requests.get itself, before the file is opened, leaves the disk as it was
\* (no file, unless an earlier failed construction left one). In no failure is
\* os.remove called.
C9_ArchiveLeftIfCreated ==
    /\ OneGet
    /\ RemovedBeforeLoad
    /\ AcquisitionFailed =>
          /\ samples = <<>> /\ ~("listdir" \in Ops(log))
          /\ ~("remove" \in Ops(log))
          /\ "write" \in Ops(log) => zip # "absent"
          /\ ~("write" \in Ops(log)) => (error = "ConnectionError" /\ zip = zipAtStart)

C9_Witness ==
    /\ AcquisitionFailed /\ error = "BadZipFile" /\ zip = "complete"
    /\ NumOp("get") = 1 /\ samples = <<>>

\* --------------------------------------------------------------- C10
\* C10: within a subject the requested tables are read in the order sleep,
\* activity, user_info, questionnaire, rr, whatever the order and the
\* duplicates of the caller's list, and reading stops at the first failure:
\* the subject is added if no read fails, skipped if the first failing file
\* in that order is missing, and the load aborts if it is unreadable. The
\* outcome and the added records so depend on the set of requested tables
\* only, and are the same for lists that are permutations of each other.
C10_FixedReadOrder ==
    /\ \A u \in Names :
          (Processed(u) /\ IsDir(world[u])) =>
             /\ ReadsOf(u) = ExpectedReads(u)
             /\ FirstFailure(u) = "none" => (Logged("add_sample", u) /\ Count(u) = 1)
             /\ FirstFailure(u) = "missing" => (Logged("skip", u) /\ Count(u) = 0)
             /\ FirstFailure(u) = "bad" => (Logged("abort", u) /\ Count(u) = 0 /\ pc = "raised")
    /\ \A s \in DOMAIN samples : DOMAIN samples[s].record = Requested

C10_Witness ==
    /\ tables.list = <<"rr", "sleep">>
    /\ pc = "raised" /\ error = "ReadError"
    /\ \E u \in Names :
          /\ Logged("abort", u)
          /\ world[u].files["sleep.csv"] = "bad" /\ world[u].files["RR.csv"] = "missing"
          /\ ReadsOf(u) = <<"sleep.csv">>

====
